---- MODULE Spec2Model ----
(***************************************************************************)
(* MJPEGStreamCapture: the MJPEG capture service of PantherScope.  One     *)
(* instance holds the frame store (frames, maxFrames), the capture status  *)
(* (url, isCapturing, error) and the handles of the running capture        *)
(* (abortController, timeSupplier, onStateChange).  Every startCapture     *)
(* call is an asynchronous activation ("session") that suspends at         *)
(* `await fetch`, `await reader.read()` and `await this.addFrame`.         *)
(***************************************************************************)
EXTENDS Integers, Sequences, FiniteSets, TLC

VARIABLES
  url,              \* this.url
  isCapturing,      \* this.isCapturing
  frames,           \* this.frames : sequence of StreamFrame
  error,            \* this.error : message or Null
  maxFrames,        \* this.maxFrames
  abortController,  \* this.abortController : index of the session it aborts, or NoController
  timeSupplier,     \* this.timeSupplier : "set" or Null
  onStateChange,    \* this.onStateChange : "set" or Null
  sessions,         \* the activations of startCapture, in call order
  nextUrl,          \* URL.createObjectURL: the next object URL it hands out
  revoked,          \* URL.revokeObjectURL: how often each object URL was revoked
  observed,         \* the state last passed to the onStateChange callback
  notifications,    \* history: how often the latest step called the onStateChange callback
  arrivals,         \* history: the frames addFrame was given since the last clearFrames
  timeMonotonic,    \* history: no session was given a timestamp below its previous one
  disposed,         \* history: dispose has been called on the instance
  video,            \* the VideoController owning the instance: its stream fields
  probe             \* argument and result of a direct extractFrame call

vars == <<url, isCapturing, frames, error, maxFrames, abortController, timeSupplier,
          onStateChange, sessions, nextUrl, revoked, observed, notifications, arrivals,
          timeMonotonic, disposed, video, probe>>

Null == "null"   \* a null string or callback
NoController == 0   \* a null abortController
\* The null a lookup returns, and the null extractFrame returns.
NullFrame == [timestamp |-> -1, imageData |-> <<>>, imageUrl |-> 0]
NullFrameData == [jpegData |-> <<>>, remainingBuffer |-> <<>>]
\* A null or empty string whose text matters: both fail the test `!value`.
NoText == <<>>
\* A VideoController outside stream mode.
NoVideo == [streamCapture |-> FALSE, streamFieldKey |-> Null, streamUrl |-> NoText,
            isStreamMode |-> FALSE, lastFieldValue |-> NoText, undisposed |-> 0]
\* What the observer holds before its first notification.
NeverNotified == [url |-> "", isCapturing |-> FALSE, frameCount |-> -1, error |-> Null]

(***************************************************************************)
(* Bounds of the model.                                                    *)
(***************************************************************************)
MaxSessions == 2      \* startCapture calls on the instance
MaxCap == 2           \* largest maxFrames given to the constructor (Spec)
MaxTime == 2          \* timestamps the time source returns: 1..MaxTime
MaxChunk == 4         \* longest chunk one reader.read() delivers
MaxStoreCap == 4      \* largest maxFrames (SpecStore)
MaxStoreTime == 4     \* timestamps 1..MaxStoreTime (SpecStore)
MaxInserts == 5       \* addFrame calls (SpecStore)
MaxBufLen == 6        \* longest buffer handed to extractFrame (SpecExtract)
MaxCalls == 2         \* repeated extractFrame calls (SpecExtract)
MaxPayloadLen == 6    \* longest JPEG payload of a stream (SpecStream)
MaxPayloads == 2      \* payloads of one stream (SpecStream)

(***************************************************************************)
(* Bytes.  0xFF, 0xD8, 0xD9 make the JPEG markers; 0x00 stands for any     *)
(* other payload byte and 0x2D ('-') for the bytes of boundary and header  *)
(* text between two parts.  A Uint8Array is the sequence of its bytes, in  *)
(* which a negative item -n is short for a run of n equal payload bytes    *)
(* other than the marker bytes; no two runs are neighbours.                *)
(***************************************************************************)
jpegStartMarker == <<255, 216>>
jpegEndMarker == <<255, 217>>
Bytes == {255, 216, 217, 0}
boundaryText == <<45, 45>>

Min(S) == CHOOSE x \in S : \A y \in S : x <= y

\* The bytes the runs at the item positions ks stand for beyond one each.
RECURSIVE runBytes(_, _)
runBytes(buffer, ks) ==
  IF ks = {} THEN 0
  ELSE LET k == CHOOSE x \in ks : TRUE
       IN (-buffer[k] - 1) + runBytes(buffer, ks \ {k})

\* Uint8Array.prototype.length: the number of bytes.
length(buffer) ==
  Len(buffer) + runBytes(buffer, {k \in DOMAIN buffer : buffer[k] < 0})

\* result.set(chunk, offset): the bytes of a followed by those of b.
concat(a, b) ==
  IF a # <<>> /\ b # <<>> /\ a[Len(a)] < 0 /\ b[1] < 0
  THEN SubSeq(a, 1, Len(a) - 1) \o <<a[Len(a)] + b[1]>> \o Tail(b)
  ELSE a \o b

\* The bytes at the positions lo..hi-1, counted from the head of buffer.
RECURSIVE sliceBytes(_, _, _)
sliceBytes(buffer, lo, hi) ==
  IF buffer = <<>> \/ hi <= 0 THEN <<>>
  ELSE LET size == IF Head(buffer) < 0 THEN -Head(buffer) ELSE 1
           from == IF lo < 0 THEN 0 ELSE lo
           to == IF hi > size THEN size ELSE hi
           rest == sliceBytes(Tail(buffer), lo - size, hi - size)
       IN IF to <= from THEN rest
          ELSE IF Head(buffer) < 0 THEN <<from - to>> \o rest
          ELSE <<Head(buffer)>> \o rest

\* Uint8Array.prototype.slice(a, b), 0-based, half-open, bounds clamped.
slice(buffer, a, b) ==
  LET lo == IF a < 0 THEN 0 ELSE a
      hi == IF b > length(buffer) THEN length(buffer) ELSE b
  IN IF lo >= hi THEN <<>>
     ELSE IF \A k \in DOMAIN buffer : buffer[k] >= 0 THEN SubSeq(buffer, lo + 1, hi)
     ELSE sliceBytes(buffer, lo, hi)

\* The loop of findMarker from the item k at byte position i on: the first
\* position from startFrom up to buffer.length - marker.length at which every
\* byte of the marker matches.  No position inside a run matches.
RECURSIVE findMarkerFrom(_, _, _, _, _)
findMarkerFrom(buffer, marker, startFrom, k, i) ==
  IF k > Len(buffer) THEN -1
  ELSE IF buffer[k] < 0
       THEN findMarkerFrom(buffer, marker, startFrom, k + 1, i - buffer[k])
       ELSE IF /\ i >= startFrom
               /\ k + Len(marker) - 1 <= Len(buffer)
               /\ \A j \in 0..(Len(marker) - 1) : buffer[k + j] = marker[j + 1]
            THEN i
            ELSE findMarkerFrom(buffer, marker, startFrom, k + 1, i + 1)

findMarkerLoop(buffer, marker, startFrom) ==
  findMarkerFrom(buffer, marker, startFrom, 1, 0)

\* A variant that stops one position early.
findMarkerShort(buffer, marker, startFrom) ==
  LET hit == findMarkerLoop(buffer, marker, startFrom)
  IN IF hit = length(buffer) - Len(marker) THEN -1 ELSE hit

findMarker(buffer, marker, startFrom) ==
  findMarkerLoop(buffer, marker, startFrom)

\* A variant that takes the rest of the buffer when the end marker is missing.
extractFrameEager(buffer) ==
  LET startIndex == findMarker(buffer, jpegStartMarker, 0)
      endIndex == IF startIndex = -1 THEN -1
                  ELSE findMarker(buffer, jpegEndMarker, startIndex)
  IN IF startIndex = -1 THEN NullFrameData
     ELSE IF endIndex = -1
          THEN [jpegData |-> slice(buffer, startIndex, length(buffer)),
                remainingBuffer |-> <<>>]
          ELSE [jpegData |-> slice(buffer, startIndex, endIndex + Len(jpegEndMarker)),
                remainingBuffer |-> slice(buffer, endIndex + Len(jpegEndMarker), length(buffer))]

extractFrame(buffer) ==
  LET startIndex == findMarker(buffer, jpegStartMarker, 0)
      endIndex == IF startIndex = -1 THEN -1
                  ELSE findMarker(buffer, jpegEndMarker, startIndex)
  IN IF startIndex = -1 THEN NullFrameData
     ELSE IF endIndex = -1 THEN NullFrameData
     ELSE [jpegData |-> slice(buffer, startIndex, endIndex + Len(jpegEndMarker)),
           remainingBuffer |-> slice(buffer, endIndex + Len(jpegEndMarker), length(buffer))]

(***************************************************************************)
(* The frame store.                                                        *)
(***************************************************************************)
StreamFrame(ts, data, u) == [timestamp |-> ts, imageData |-> data, imageUrl |-> u]

RECURSIVE getFrameAtTimeLoop(_, _, _, _, _)
getFrameAtTimeLoop(fs, timestamp, left, right, result) ==
  IF left > right THEN result
  ELSE LET mid == (left + right) \div 2
           frame == fs[mid + 1]
       IN IF frame.timestamp <= timestamp
          THEN getFrameAtTimeLoop(fs, timestamp, mid + 1, right, frame)
          ELSE getFrameAtTimeLoop(fs, timestamp, left, mid - 1, result)

\* A variant whose comparison is strict.
getFrameAtTimeStrict(fs, timestamp) ==
  getFrameAtTimeLoop(fs, timestamp + (-1), 0, Len(fs) - 1, NullFrame)

\* A variant that keeps the first hit instead of searching on to the right.
getFrameAtTimeFirstHit(fs, timestamp) ==
  LET hit == getFrameAtTimeLoop(fs, timestamp, 0, Len(fs) - 1, NullFrame)
      same == {i \in 1..Len(fs) : fs[i].timestamp = hit.timestamp}
  IN IF hit = NullFrame THEN NullFrame ELSE fs[Min(same)]

getFrameAtTime(fs, timestamp) ==
  IF Len(fs) = 0 THEN NullFrame
  ELSE getFrameAtTimeLoop(fs, timestamp, 0, Len(fs) - 1, NullFrame)

\* A variant that counts the frames from one.
getFrameAtIndexFromOne(fs, index) ==
  IF index <= 0 \/ index > Len(fs) THEN NullFrame ELSE fs[index]

getFrameAtIndex(fs, index) ==
  IF index < 0 \/ index >= Len(fs) THEN NullFrame ELSE fs[index + 1]

revokeObjectURL(rv, u) == [rv EXCEPT ![u] = @ + 1]

RECURSIVE revokeAll(_, _)
revokeAll(rv, fs) ==
  IF fs = <<>> THEN rv ELSE revokeAll(revokeObjectURL(rv, Head(fs).imageUrl), Tail(fs))

\* The eviction loop of addFrame: shift and revoke while over capacity.
RECURSIVE evictLoop(_, _, _)
evictLoop(fs, rv, cap) ==
  IF Len(fs) > cap
  THEN evictLoop(Tail(fs), revokeObjectURL(rv, Head(fs).imageUrl), cap)
  ELSE [frames |-> fs, revoked |-> rv]

\* A variant of addFrame that drops the newest frame when over capacity.
addFrameDropNewest(fs, rv, cap, jpegData, timestamp, imageUrl) ==
  IF Len(fs) >= cap
  THEN [frames |-> fs, revoked |-> revokeObjectURL(rv, imageUrl)]
  ELSE [frames |-> Append(fs, StreamFrame(timestamp, jpegData, imageUrl)), revoked |-> rv]

\* A variant of addFrame that evicts without revoking.
addFrameLeak(fs, rv, cap, jpegData, timestamp, imageUrl) ==
  LET pushed == Append(fs, StreamFrame(timestamp, jpegData, imageUrl))
  IN [frames |-> evictLoop(pushed, rv, cap).frames, revoked |-> rv]

\* A variant of addFrame that revokes the evicted frame but leaves it at the
\* front of the array, dropping the one behind it.
addFrameStale(fs, rv, cap, jpegData, timestamp, imageUrl) ==
  LET pushed == Append(fs, StreamFrame(timestamp, jpegData, imageUrl))
  IN IF Len(pushed) > cap /\ Len(pushed) >= 2
     THEN [frames |-> <<pushed[1]>> \o SubSeq(pushed, 3, Len(pushed)),
           revoked |-> revokeObjectURL(rv, pushed[1].imageUrl)]
     ELSE evictLoop(pushed, rv, cap)

\* A variant of addFrame that keeps the array sorted by inserting in place.
addFrameFront(fs, rv, cap, jpegData, timestamp, imageUrl) ==
  evictLoop(<<StreamFrame(timestamp, jpegData, imageUrl)>> \o fs, rv, cap)

\* A variant of addFrame without the eviction loop.
addFrameNoEvict(fs, rv, cap, jpegData, timestamp, imageUrl) ==
  [frames |-> Append(fs, StreamFrame(timestamp, jpegData, imageUrl)), revoked |-> rv]

\* addFrame without its notification: the new frames array and revocations.
addFrame(fs, rv, cap, jpegData, timestamp, imageUrl) ==
  evictLoop(Append(fs, StreamFrame(timestamp, jpegData, imageUrl)), rv, cap)

(***************************************************************************)
(* The instance and its sessions.                                          *)
(***************************************************************************)
Urls == {"http://cam/stream"}
Times == 1..MaxTime
Caps == 0..MaxCap

\* The value of getState() the callback receives.
getState(u, capturing, fs, err) ==
  [url |-> u, isCapturing |-> capturing, frameCount |-> Len(fs), error |-> err]

\* The callback invocations of a step that calls notifyStateChange k times.
callbacks(k) == IF onStateChange # Null THEN k ELSE 0

\* notifyStateChange: what the observer has seen after a notification.
notifyStateChange(u, capturing, fs, err) ==
  IF onStateChange # Null THEN getState(u, capturing, fs, err) ELSE observed

\* Content-Type headers a server answers with ("" when it sends none), and
\* the boundary /boundary=(?:"([^"]+)"|([^\s;]+))/i finds in each.
ContentTypes == {"multipart/x-mixed-replace; boundary=--myboundary", "image/jpeg", ""}

\* A variant that falls back on a default boundary when the header names none.
extractBoundaryLax(contentType) ==
  CASE contentType = "multipart/x-mixed-replace; boundary=--myboundary" -> "--myboundary"
    [] contentType = "multipart/x-mixed-replace;boundary=\"myboundary\"" -> "myboundary"
    [] OTHER -> "--boundary"

extractBoundary(contentType) ==
  CASE contentType = "multipart/x-mixed-replace; boundary=--myboundary" -> "--myboundary"
    [] contentType = "multipart/x-mixed-replace;boundary=\"myboundary\"" -> "myboundary"
    [] OTHER -> Null

\* A multipart body: every part is boundary text followed by its payload.
RECURSIVE Build(_)
Build(ps) == IF ps = <<>> THEN <<>> ELSE boundaryText \o Head(ps) \o Build(Tail(ps))

SmallJpeg == jpegStartMarker \o jpegEndMarker

\* The bodies a server sends in Spec: two parts, and a part cut short before
\* its end marker.  A read delivers half a part, a whole part or two parts.
MainStreams ==
  { [payloads |-> <<SmallJpeg, SmallJpeg>>, body |-> Build(<<SmallJpeg, SmallJpeg>>)],
    [payloads |-> <<>>, body |-> boundaryText \o jpegStartMarker \o <<0>>] }
MainChunks == {3, 6, 12}

\* Before any direct call of extractFrame.
NoProbe == [first |-> <<>>, input |-> <<>>, buffer |-> <<>>, result |-> NullFrameData,
            calls |-> 0]

NewSession ==
  [pc |-> "fetch", signalAborted |-> FALSE, contentType |-> Null,
   payloads |-> <<>>, body |-> <<>>,
   bufferChunks |-> <<>>, bufferLength |-> 0, frameData |-> NullFrameData,
   lastTime |-> 0]

\* AbortController.abort(): the signal is set and the connection is closed,
\* so the rest of the body is never delivered.
abort(ss, ctl) ==
  IF ctl = NoController THEN ss
  ELSE [ss EXCEPT ![ctl].signalAborted = TRUE, ![ctl].body = <<>>]

\* startCapture has returned: its locals are gone.
Returned(sn) ==
  [NewSession EXCEPT !.pc = "done", !.signalAborted = sn.signalAborted,
                     !.lastTime = 0]

Init ==
  /\ url = ""
  /\ isCapturing = FALSE
  /\ frames = <<>>
  /\ error = Null
  /\ maxFrames \in Caps
  /\ abortController = NoController
  /\ timeSupplier = Null
  /\ onStateChange = Null
  /\ sessions = <<>>
  /\ nextUrl = 1
  /\ revoked = <<>>
  /\ observed = NeverNotified
  /\ notifications = 0
  /\ disposed = FALSE
  /\ video = NoVideo
  /\ arrivals = <<>>
  /\ timeMonotonic = TRUE
  /\ probe = NoProbe

\* The setters are called while the instance is being set up, before its
\* first startCapture (VideoController.startStreamCapture).
SetOnStateChange ==
  /\ sessions = <<>>
  /\ onStateChange' = "set"
  /\ notifications' = 0
  /\ disposed' = disposed
  /\ video' = video
  /\ UNCHANGED <<url, isCapturing, frames, error, maxFrames, abortController, timeSupplier,
                 sessions, nextUrl, revoked, observed, arrivals, timeMonotonic, probe>>

SetTimeSupplier(supplier) ==
  /\ sessions = <<>>
  /\ timeSupplier' = supplier
  /\ notifications' = 0
  /\ disposed' = disposed
  /\ video' = video
  /\ UNCHANGED <<url, isCapturing, frames, error, maxFrames, abortController,
                 onStateChange, sessions, nextUrl, revoked, observed, arrivals,
                 timeMonotonic, probe>>

StopCapture ==
  /\ sessions' = abort(sessions, abortController)
  /\ abortController' = NoController
  /\ isCapturing' = FALSE
  /\ observed' = notifyStateChange(url, FALSE, frames, error)
  /\ notifications' = callbacks(1)
  /\ disposed' = disposed
  /\ video' = video
  /\ UNCHANGED <<url, frames, error, maxFrames, timeSupplier, onStateChange, nextUrl,
                 revoked, arrivals, timeMonotonic, probe>>

\* A variant that starts every capture with an empty store.
StartCaptureFresh(u) ==
  /\ Len(sessions) < MaxSessions
  /\ sessions' = Append(abort(sessions, abortController), NewSession)
  /\ url' = u
  /\ error' = Null
  /\ isCapturing' = TRUE
  /\ revoked' = revokeAll(revoked, frames)
  /\ frames' = <<>>
  /\ arrivals' = <<>>
  /\ observed' = notifyStateChange(u, TRUE, <<>>, Null)
  /\ notifications' = callbacks(2)
  /\ disposed' = disposed
  /\ video' = video
  /\ abortController' = Len(sessions) + 1
  /\ UNCHANGED <<maxFrames, timeSupplier, onStateChange, nextUrl, timeMonotonic, probe>>

StartCapture(u) ==
  /\ Len(sessions) < MaxSessions
  /\ sessions' = Append(abort(sessions, abortController), NewSession)
  /\ url' = u
  /\ error' = Null
  /\ isCapturing' = TRUE
  /\ observed' = notifyStateChange(u, TRUE, frames, Null)
  /\ notifications' = callbacks(2)
  /\ disposed' = disposed
  /\ video' = video
  /\ abortController' = Len(sessions) + 1
  /\ UNCHANGED <<frames, maxFrames, timeSupplier, onStateChange, nextUrl, revoked,
                 arrivals, timeMonotonic, probe>>

\* A variant that also closes the running capture, as stopCapture does.
ClearFramesClosing ==
  /\ sessions' = abort(sessions, abortController)
  /\ abortController' = NoController
  /\ isCapturing' = FALSE
  /\ revoked' = revokeAll(revoked, frames)
  /\ frames' = <<>>
  /\ arrivals' = <<>>
  /\ observed' = notifyStateChange(url, FALSE, <<>>, error)
  /\ notifications' = callbacks(1)
  /\ disposed' = disposed
  /\ video' = video
  /\ UNCHANGED <<url, error, maxFrames, timeSupplier, onStateChange, nextUrl,
                 timeMonotonic, probe>>

ClearFrames ==
  /\ revoked' = revokeAll(revoked, frames)
  /\ frames' = <<>>
  /\ arrivals' = <<>>
  /\ observed' = notifyStateChange(url, isCapturing, <<>>, error)
  /\ notifications' = callbacks(1)
  /\ disposed' = disposed
  /\ video' = video
  /\ UNCHANGED <<url, isCapturing, error, maxFrames, abortController, timeSupplier,
                 onStateChange, sessions, nextUrl, timeMonotonic, probe>>

\* A variant that leaves the observer attached.
DisposeKeepObserver ==
  /\ sessions' = abort(sessions, abortController)
  /\ abortController' = NoController
  /\ isCapturing' = FALSE
  /\ revoked' = revokeAll(revoked, frames)
  /\ frames' = <<>>
  /\ arrivals' = <<>>
  /\ observed' = notifyStateChange(url, FALSE, <<>>, error)
  /\ notifications' = callbacks(2)
  /\ disposed' = TRUE
  /\ video' = video
  /\ timeSupplier' = Null
  /\ UNCHANGED <<url, error, maxFrames, onStateChange, nextUrl, timeMonotonic, probe>>

Dispose ==
  /\ sessions' = abort(sessions, abortController)
  /\ abortController' = NoController
  /\ isCapturing' = FALSE
  /\ revoked' = revokeAll(revoked, frames)
  /\ frames' = <<>>
  /\ arrivals' = <<>>
  /\ observed' = notifyStateChange(url, FALSE, <<>>, error)
  /\ notifications' = callbacks(2)
  /\ disposed' = TRUE
  /\ video' = video
  /\ onStateChange' = Null
  /\ timeSupplier' = Null
  /\ UNCHANGED <<url, error, maxFrames, nextUrl, timeMonotonic, probe>>

(***************************************************************************)
(* The steps of a session between its suspension points.                   *)
(***************************************************************************)
TruncateAbove == 1048576   \* 1024 * 1024
TruncateKeep == 524288     \* 512 * 1024

RECURSIVE Flatten(_)
Flatten(chunks) == IF chunks = <<>> THEN <<>> ELSE concat(Head(chunks), Flatten(Tail(chunks)))

\* getBuffer: the concatenation of the chunks (which it also stores back as one chunk).
getBuffer(bufferChunks) == Flatten(bufferChunks)

\* Date.now() / 1000: a reading of the wall clock, which lies above every
\* timestamp of the log.
DateNow(t) == MaxTime + t

\* A variant that trims to the ceiling instead of to half of it.
endOfPassKeepCeiling(sn, buffer) ==
  LET kept == IF sn.bufferLength > TruncateAbove
              THEN slice(buffer, length(buffer) - TruncateAbove, length(buffer))
              ELSE buffer
  IN [sn EXCEPT !.pc = "read",
                !.frameData = NullFrameData,
                !.bufferChunks = <<kept>>,
                !.bufferLength = length(kept)]

\* A variant that discards the bytes in which it found no frame.
endOfPassDropping(sn, buffer) ==
  [sn EXCEPT !.pc = "read",
             !.frameData = NullFrameData,
             !.bufferChunks = <<>>,
             !.bufferLength = 0]

\* The end of one pass of the read loop once extractFrame found nothing:
\* the truncation of an over-grown buffer, then the next reader.read().
endOfPass(sn, buffer) ==
  LET kept == IF sn.bufferLength > TruncateAbove
              THEN slice(buffer, length(buffer) - TruncateKeep, length(buffer))
              ELSE buffer
  IN [sn EXCEPT !.pc = "read",
                !.frameData = NullFrameData,
                !.bufferChunks = IF sn.bufferChunks = <<>> THEN <<>> ELSE <<kept>>,
                !.bufferLength = IF sn.bufferLength > TruncateAbove THEN length(kept) ELSE @]

\* err.message || "Unknown error"
messageOf(message) == IF message = "" THEN "Unknown error" ELSE message

\* A variant that records err.message as it is.
FailRaw(i, message, calls) ==
  /\ sessions' = [sessions EXCEPT ![i] = Returned(@)]
  /\ error' = message
  /\ isCapturing' = FALSE
  /\ observed' = notifyStateChange(url, FALSE, frames, message)
  /\ notifications' = callbacks(calls)
  /\ disposed' = disposed
  /\ video' = video
  /\ UNCHANGED <<url, frames, maxFrames, abortController, timeSupplier, onStateChange,
                 nextUrl, revoked, arrivals, timeMonotonic, probe>>

\* A variant that starts the request again after recording the error.
FailAndRetry(i, message, calls) ==
  /\ sessions' = [sessions EXCEPT ![i] = NewSession]
  /\ error' = messageOf(message)
  /\ isCapturing' = FALSE
  /\ observed' = notifyStateChange(url, FALSE, frames, messageOf(message))
  /\ notifications' = callbacks(calls)
  /\ disposed' = disposed
  /\ video' = video
  /\ UNCHANGED <<url, frames, maxFrames, abortController, timeSupplier, onStateChange,
                 nextUrl, revoked, arrivals, timeMonotonic, probe>>

\* A variant that releases the stored frames when it records the error.
FailClearing(i, message, calls) ==
  /\ sessions' = [sessions EXCEPT ![i] = [NewSession EXCEPT !.pc = "done"]]
  /\ error' = messageOf(message)
  /\ isCapturing' = FALSE
  /\ frames' = <<>>
  /\ revoked' = revokeAll(revoked, frames)
  /\ arrivals' = <<>>
  /\ observed' = notifyStateChange(url, FALSE, <<>>, messageOf(message))
  /\ notifications' = callbacks(calls)
  /\ disposed' = disposed
  /\ video' = video
  /\ UNCHANGED <<url, maxFrames, abortController, timeSupplier, onStateChange,
                 nextUrl, timeMonotonic, probe>>

\* The failure branch of startCapture's catch: the error is recorded.  `calls`
\* counts its notification and the one of readStream's finally block, if run.
Fail(i, message, calls) ==
  /\ sessions' = [sessions EXCEPT ![i] = Returned(@)]
  /\ error' = messageOf(message)
  /\ isCapturing' = FALSE
  /\ observed' = notifyStateChange(url, FALSE, frames, messageOf(message))
  /\ notifications' = callbacks(calls)
  /\ disposed' = disposed
  /\ video' = video
  /\ UNCHANGED <<url, frames, maxFrames, abortController, timeSupplier, onStateChange,
                 nextUrl, revoked, arrivals, timeMonotonic, probe>>

\* A variant without the AbortError test: the cancellation is recorded as
\* an error like any other rejection.
FetchAbortedReported(i) ==
  /\ sessions[i].pc = "fetch"
  /\ sessions[i].signalAborted
  /\ sessions' = [sessions EXCEPT ![i] = [NewSession EXCEPT !.pc = "done",
                                                            !.signalAborted = TRUE]]
  /\ error' = "The user aborted a request."
  /\ isCapturing' = FALSE
  /\ observed' = notifyStateChange(url, FALSE, frames, "The user aborted a request.")
  /\ notifications' = callbacks(1)
  /\ disposed' = disposed
  /\ video' = video
  /\ UNCHANGED <<url, frames, maxFrames, abortController, timeSupplier, onStateChange,
                 nextUrl, revoked, arrivals, timeMonotonic, probe>>

\* `await fetch` settles: rejected by the abort, rejected by the network, or
\* resolved with a response that startCapture accepts or refuses.
FetchAborted(i) ==
  /\ sessions[i].pc = "fetch"
  /\ sessions[i].signalAborted
  /\ sessions' = [sessions EXCEPT ![i] = Returned(@)]
  /\ notifications' = 0
  /\ disposed' = disposed
  /\ video' = video
  /\ UNCHANGED <<url, isCapturing, frames, error, maxFrames, abortController, timeSupplier,
                 onStateChange, nextUrl, revoked, observed, arrivals, timeMonotonic, probe>>

FetchFailed(i) ==
  /\ sessions[i].pc = "fetch"
  /\ ~sessions[i].signalAborted
  /\ \E message \in {"Failed to fetch", "HTTP error: 404 Not Found",
                     "Response body is null", ""} :
       Fail(i, message, 1)

FetchResolved(i, streams) ==
  /\ sessions[i].pc = "fetch"
  /\ ~sessions[i].signalAborted
  /\ \E contentType \in ContentTypes :
       IF extractBoundary(contentType) = Null
       THEN Fail(i, "Could not find MJPEG boundary in Content-Type header", 1)
       ELSE /\ \E st \in streams :
                 sessions' = [sessions EXCEPT ![i].pc = "read",
                                              ![i].contentType = contentType,
                                              ![i].payloads = st.payloads,
                                              ![i].body = st.body]
            /\ notifications' = 0
            /\ disposed' = disposed
            /\ video' = video
            /\ UNCHANGED <<url, isCapturing, frames, error, maxFrames, abortController,
                           timeSupplier, onStateChange, nextUrl, revoked, observed,
                           arrivals, timeMonotonic, probe>>

\* A variant that gives up on an over-grown buffer: it reports an error and
\* ends the capture instead of truncating.
DrainSurfacing(i, sn, buffer, timestamp) ==
  LET frameData == extractFrame(buffer)
      at == IF timeSupplier # Null THEN timestamp ELSE DateNow(timestamp)
      added == addFrame(frames, Append(revoked, 0), maxFrames, frameData.jpegData,
                        at, nextUrl)
  IN IF frameData = NullFrameData
     THEN /\ sessions' = [sessions EXCEPT ![i] =
                            IF sn.bufferLength > TruncateAbove
                            THEN [NewSession EXCEPT !.pc = "done"]
                            ELSE [sn EXCEPT !.pc = "read", !.frameData = NullFrameData]]
          /\ error' = IF sn.bufferLength > TruncateAbove THEN "Buffer overflow" ELSE error
          /\ isCapturing' = IF sn.bufferLength > TruncateAbove THEN FALSE ELSE isCapturing
          /\ observed' = IF sn.bufferLength > TruncateAbove
                         THEN notifyStateChange(url, FALSE, frames, "Buffer overflow")
                         ELSE observed
          /\ notifications' = IF sn.bufferLength > TruncateAbove THEN callbacks(1) ELSE 0
          /\ disposed' = disposed
          /\ video' = video
          /\ UNCHANGED <<url, frames, maxFrames, abortController, timeSupplier,
                         onStateChange, nextUrl, revoked, arrivals, timeMonotonic, probe>>
     ELSE /\ sessions' = [sessions EXCEPT ![i] =
                            [sn EXCEPT !.pc = "added", !.frameData = frameData,
                                       !.lastTime = at]]
          /\ frames' = added.frames
          /\ revoked' = added.revoked
          /\ nextUrl' = nextUrl + 1
          /\ arrivals' = Append(arrivals, StreamFrame(at, frameData.jpegData, nextUrl))
          /\ timeMonotonic' = (timeMonotonic /\ at >= sn.lastTime)
          /\ observed' = notifyStateChange(url, isCapturing, added.frames, error)
          /\ notifications' = callbacks(1)
          /\ disposed' = disposed
          /\ video' = video
          /\ UNCHANGED <<url, isCapturing, error, maxFrames, abortController, timeSupplier,
                         onStateChange, probe>>

\* The drain loop from a call of extractFrame on `buffer` to the next
\* suspension: `await this.addFrame` when a frame was found, else the next
\* `await reader.read()`.  `sn` is the session with its chunks already updated,
\* `timestamp` the reading of the clock the frame is stamped from.
Drain(i, sn, buffer, timestamp) ==
  LET frameData == extractFrame(buffer)
      at == IF timeSupplier # Null THEN timestamp ELSE DateNow(timestamp)
      added == addFrame(frames, Append(revoked, 0), maxFrames, frameData.jpegData,
                        at, nextUrl)
  IN IF frameData = NullFrameData
     THEN /\ sessions' = [sessions EXCEPT ![i] = endOfPass(sn, buffer)]
          /\ notifications' = 0
          /\ disposed' = disposed
          /\ video' = video
          /\ UNCHANGED <<url, isCapturing, frames, error, maxFrames, abortController,
                         timeSupplier, onStateChange, nextUrl, revoked, observed, arrivals,
                         timeMonotonic, probe>>
     ELSE /\ sessions' = [sessions EXCEPT ![i] =
                            [sn EXCEPT !.pc = "added", !.frameData = frameData,
                                       !.lastTime = at]]
          /\ frames' = added.frames
          /\ revoked' = added.revoked
          /\ nextUrl' = nextUrl + 1
          /\ arrivals' = Append(arrivals, StreamFrame(at, frameData.jpegData, nextUrl))
          /\ timeMonotonic' = (timeMonotonic /\ at >= sn.lastTime)
          /\ observed' = notifyStateChange(url, isCapturing, added.frames, error)
          /\ notifications' = callbacks(1)
          /\ disposed' = disposed
          /\ video' = video
          /\ UNCHANGED <<url, isCapturing, error, maxFrames, abortController, timeSupplier,
                         onStateChange, probe>>

\* `await reader.read()` settles with a chunk: the next n bytes of the
\* body, or what is left of it.
ReadChunk(i, n, timestamp) ==
  /\ sessions[i].pc = "read"
  /\ ~sessions[i].signalAborted
  /\ n >= 1 /\ sessions[i].body # <<>>
  /\ LET value == slice(sessions[i].body, 0, n)
         sn == [sessions[i] EXCEPT
                  !.body = slice(@, n, length(@)),
                  !.bufferChunks = <<getBuffer(Append(@, value))>>,
                  !.bufferLength = @ + length(value)]
     IN Drain(i, sn, sn.bufferChunks[1], timestamp)

\* A variant with an `if` in place of the drain loop: after one frame it
\* keeps the remainder and goes back to reading.
AfterAddFrameNoLoop(i, timestamp) ==
  /\ sessions[i].pc = "added"
  /\ LET buffer == sessions[i].frameData.remainingBuffer
         sn == [sessions[i] EXCEPT !.bufferChunks = <<buffer>>,
                                   !.bufferLength = length(buffer)]
     IN sessions' = [sessions EXCEPT ![i] = endOfPass(sn, buffer)]
  /\ notifications' = 0
  /\ disposed' = disposed
  /\ video' = video
  /\ UNCHANGED <<url, isCapturing, frames, error, maxFrames, abortController, timeSupplier,
                 onStateChange, nextUrl, revoked, observed, arrivals, timeMonotonic, probe>>

\* The code after `await this.addFrame`: the remainder becomes the buffer
\* and the drain loop goes on.
AfterAddFrame(i, timestamp) ==
  /\ sessions[i].pc = "added"
  /\ LET buffer == sessions[i].frameData.remainingBuffer
         sn == [sessions[i] EXCEPT !.bufferChunks = <<buffer>>,
                                   !.bufferLength = length(buffer)]
     IN Drain(i, sn, buffer, timestamp)

\* A variant whose finally block does not notify.
ReadEndedQuiet(i) ==
  /\ sessions[i].pc = "read"
  /\ sessions[i].signalAborted \/ sessions[i].body = <<>>
  /\ sessions' = [sessions EXCEPT ![i] = Returned(@)]
  /\ isCapturing' = FALSE
  /\ notifications' = 0
  /\ disposed' = disposed
  /\ video' = video
  /\ UNCHANGED <<url, frames, error, maxFrames, abortController, timeSupplier,
                 onStateChange, nextUrl, revoked, observed, arrivals, timeMonotonic, probe>>

\* A variant whose read does not observe the abort signal: the loop ends
\* only when the server closes the stream.
ReadEndedDeaf(i) ==
  /\ sessions[i].pc = "read"
  /\ ~sessions[i].signalAborted /\ sessions[i].body = <<>>
  /\ sessions' = [sessions EXCEPT ![i] = Returned(@)]
  /\ isCapturing' = FALSE
  /\ observed' = notifyStateChange(url, FALSE, frames, error)
  /\ notifications' = callbacks(1)
  /\ disposed' = disposed
  /\ video' = video
  /\ UNCHANGED <<url, frames, error, maxFrames, abortController, timeSupplier,
                 onStateChange, nextUrl, revoked, arrivals, timeMonotonic, probe>>

\* A variant with a read timeout: the loop also ends while the connection
\* is open and nothing has arrived.
ReadEndedStalled(i) ==
  /\ sessions[i].pc = "read"
  /\ sessions' = [sessions EXCEPT ![i] = Returned(@)]
  /\ isCapturing' = FALSE
  /\ observed' = notifyStateChange(url, FALSE, frames, error)
  /\ notifications' = callbacks(1)
  /\ disposed' = disposed
  /\ video' = video
  /\ UNCHANGED <<url, frames, error, maxFrames, abortController, timeSupplier,
                 onStateChange, nextUrl, revoked, arrivals, timeMonotonic, probe>>

\* readStream's finally block followed by the return of startCapture: the
\* read was rejected by the abort, or the stream ended.
ReadEnded(i) ==
  /\ sessions[i].pc = "read"
  /\ sessions[i].signalAborted \/ sessions[i].body = <<>>
  /\ sessions' = [sessions EXCEPT ![i] = Returned(@)]
  /\ isCapturing' = FALSE
  /\ observed' = notifyStateChange(url, FALSE, frames, error)
  /\ notifications' = callbacks(1)
  /\ disposed' = disposed
  /\ video' = video
  /\ UNCHANGED <<url, frames, error, maxFrames, abortController, timeSupplier,
                 onStateChange, nextUrl, revoked, arrivals, timeMonotonic, probe>>

\* reader.read() rejects with a network error: readStream's finally block
\* runs and readStream rejects in turn.
ReadFailed(i) ==
  /\ sessions[i].pc = "read"
  /\ ~sessions[i].signalAborted
  /\ sessions' = [sessions EXCEPT ![i] = [Returned(@) EXCEPT !.pc = "rejected"]]
  /\ isCapturing' = FALSE
  /\ observed' = notifyStateChange(url, FALSE, frames, error)
  /\ notifications' = callbacks(1)
  /\ disposed' = disposed
  /\ video' = video
  /\ UNCHANGED <<url, frames, error, maxFrames, abortController, timeSupplier,
                 onStateChange, nextUrl, revoked, arrivals, timeMonotonic, probe>>

\* The continuation of `await this.readStream` after that rejection, one
\* microtask later: the catch of startCapture.
ReadFailureCaught(i) ==
  /\ sessions[i].pc = "rejected"
  /\ Fail(i, "network error", 1)

Next ==
  \/ SetOnStateChange
  \/ \E supplier \in {"set", Null} : SetTimeSupplier(supplier)
  \/ \E u \in Urls : StartCapture(u)
  \/ StopCapture
  \/ ClearFrames
  \/ Dispose
  \/ \E i \in DOMAIN sessions : FetchAborted(i)
  \/ \E i \in DOMAIN sessions : FetchFailed(i)
  \/ \E i \in DOMAIN sessions : FetchResolved(i, MainStreams)
  \/ \E i \in DOMAIN sessions, n \in MainChunks, t \in Times : ReadChunk(i, n, t)
  \/ \E i \in DOMAIN sessions, t \in Times : AfterAddFrame(i, t)
  \/ \E i \in DOMAIN sessions : ReadEnded(i)
  \/ \E i \in DOMAIN sessions : ReadFailed(i)
  \/ \E i \in DOMAIN sessions : ReadFailureCaught(i)

Spec == Init /\ [][Next]_vars

\* The event loop runs the continuation of every settled promise: a fetch or
\* a read that the abort has rejected is resumed.
Fairness ==
  \A i \in 1..MaxSessions :
    /\ WF_vars(i \in DOMAIN sessions /\ FetchAborted(i))
    /\ WF_vars(i \in DOMAIN sessions /\ ReadEnded(i))

SpecLive == Spec /\ Fairness

(***************************************************************************)
(* The frame store on its own: addFrame called with any timestamps, and    *)
(* clearFrames, on an instance that never captures.                        *)
(***************************************************************************)
StoreTimes == 1..MaxStoreTime

InitStore ==
  /\ url = ""
  /\ isCapturing = FALSE
  /\ frames = <<>>
  /\ error = Null
  /\ maxFrames \in 0..MaxStoreCap
  /\ abortController = NoController
  /\ timeSupplier = Null
  /\ onStateChange = Null
  /\ sessions = <<>>
  /\ nextUrl = 1
  /\ revoked = <<>>
  /\ observed = NeverNotified
  /\ notifications = 0
  /\ disposed = FALSE
  /\ video = NoVideo
  /\ arrivals = <<>>
  /\ timeMonotonic = TRUE
  /\ probe = NoProbe

AddFrame(jpegData, timestamp) ==
  /\ nextUrl <= MaxInserts
  /\ LET added == addFrame(frames, Append(revoked, 0), maxFrames, jpegData, timestamp,
                           nextUrl)
     IN /\ frames' = added.frames
        /\ revoked' = added.revoked
        /\ observed' = notifyStateChange(url, isCapturing, added.frames, error)
        /\ notifications' = callbacks(1)
        /\ disposed' = disposed
        /\ video' = video
  /\ nextUrl' = nextUrl + 1
  /\ arrivals' = Append(arrivals, StreamFrame(timestamp, jpegData, nextUrl))
  /\ UNCHANGED <<url, isCapturing, error, maxFrames, abortController, timeSupplier,
                 onStateChange, sessions, timeMonotonic, probe>>

NextStore ==
  \/ \E t \in StoreTimes : AddFrame(SmallJpeg, t)
  \/ ClearFrames

SpecStore == InitStore /\ [][NextStore]_vars

(***************************************************************************)
(* Properties of the frame store.                                          *)
(***************************************************************************)
Timestamps(fs) == [i \in DOMAIN fs |-> fs[i].timestamp]
Handles(fs) == {fs[i].imageUrl : i \in DOMAIN fs}
StrictlyIncreasing(fs) == \A i \in 1..(Len(fs) - 1) : fs[i].timestamp < fs[i + 1].timestamp
NonDecreasing(fs) == \A i \in 1..(Len(fs) - 1) : fs[i].timestamp <= fs[i + 1].timestamp
Queries == 0..(MaxStoreTime + 1)

\* The linear-scan reference: the stored frame with the largest timestamp <= t.
LargestAtOrBefore(fs, t) ==
  LET ok == {i \in DOMAIN fs : fs[i].timestamp <= t}
  IN IF ok = {} THEN NullFrame
     ELSE fs[CHOOSE i \in ok : \A j \in ok : fs[j].timestamp <= fs[i].timestamp]

\* C1: on a store with strictly increasing timestamps, getFrameAtTime(t) is
\* the stored frame with the largest timestamp <= t for every t, and null when
\* the store is empty or t is below every stored timestamp.
C1_LookupMatchesLinearScan ==
  StrictlyIncreasing(frames) =>
    \A t \in Queries :
      /\ getFrameAtTime(frames, t) = LargestAtOrBefore(frames, t)
      /\ (\A i \in DOMAIN frames : t < frames[i].timestamp) =>
           getFrameAtTime(frames, t) = NullFrame

C1_Witness ==
  /\ StrictlyIncreasing(frames)
  /\ Len(frames) = 3
  /\ getFrameAtTime(frames, frames[2].timestamp) = frames[2]
  /\ getFrameAtTime(frames, frames[1].timestamp - 1) = NullFrame
  /\ frames[3].timestamp > frames[2].timestamp + 1

\* C2: with n insertions since construction or the last clearFrames, the store
\* holds exactly min(n, maxFrames) frames, the most recently inserted ones in
\* arrival order.
C2_StoreHoldsNewest ==
  LET n == Len(arrivals)
      k == IF n < maxFrames THEN n ELSE maxFrames
  IN /\ Len(frames) = k
     /\ frames = SubSeq(arrivals, n - k + 1, n)

C2_Witness ==
  /\ maxFrames = 3
  /\ Timestamps(arrivals) = <<1, 2, 3, 4>>
  /\ Timestamps(frames) = <<2, 3, 4>>
  /\ getFrameAtTime(frames, 1) = NullFrame
  /\ getFrameAtTime(frames, 2) = frames[1]

\* C3: every object URL created by addFrame is revoked at most once, and the
\* URLs created and not yet revoked are exactly those of the stored frames.
C3_HandlesReleasedOnce ==
  /\ \A u \in DOMAIN revoked : revoked[u] <= 1
  /\ {u \in DOMAIN revoked : revoked[u] = 0} = Handles(frames)
  /\ Cardinality(Handles(frames)) = Len(frames)
  /\ DOMAIN revoked = 1..(nextUrl - 1)

C3_Witness ==
  /\ Len(sessions) = 2
  /\ nextUrl >= 4
  /\ revoked[1] = 1
  /\ frames # <<>>
  /\ \E u \in DOMAIN revoked : u > 1 /\ revoked[u] = 1 /\ u + 1 \in Handles(frames)

\* C4: no lookup by time or by index returns a frame whose object URL has been
\* revoked, and a query time that no stored frame satisfies returns null.
C4_NoReleasedFrameReturned ==
  /\ \A t \in 0..(DateNow(MaxTime) + 1) :
       LET f == getFrameAtTime(frames, t)
       IN /\ f # NullFrame => (f.imageUrl \in DOMAIN revoked /\ revoked[f.imageUrl] = 0)
          /\ (\A i \in DOMAIN frames : frames[i].timestamp > t) => f = NullFrame
  /\ \A index \in (-1)..Len(frames) :
       LET f == getFrameAtIndex(frames, index)
       IN f # NullFrame => (f.imageUrl \in DOMAIN revoked /\ revoked[f.imageUrl] = 0)

\* An eviction has happened, and a query time that only the evicted frame
\* satisfied now returns null.
C4_Witness ==
  /\ frames # <<>>
  /\ \E t \in Times :
       /\ \E i \in DOMAIN arrivals :
            arrivals[i].timestamp <= t /\ revoked[arrivals[i].imageUrl] = 1
       /\ getFrameAtTime(frames, t) = NullFrame
  /\ getFrameAtIndex(frames, 0) = frames[1]

\* C5: whenever every session was given non-decreasing timestamps, the frames
\* array is in non-decreasing timestamp order.
C5_FramesSorted == timeMonotonic => NonDecreasing(frames)

\* C6: in a store in non-decreasing order where several frames share the
\* timestamp T, getFrameAtTime(t) for t >= T below the next larger stored
\* timestamp is the one of them that was inserted last.
C6_TieReturnsLatest ==
  NonDecreasing(frames) =>
    \A T \in StoreTimes, t \in Queries :
      LET tied == {i \in DOMAIN frames : frames[i].timestamp = T}
          last == CHOOSE i \in tied : \A j \in tied : frames[j].imageUrl <= frames[i].imageUrl
      IN (/\ Cardinality(tied) >= 2
          /\ t >= T
          /\ \A i \in DOMAIN frames : ~(T < frames[i].timestamp /\ frames[i].timestamp <= t))
         => getFrameAtTime(frames, t) = frames[last]

C6_Witness ==
  /\ Len(frames) = 3
  /\ frames[1].timestamp = 2 /\ frames[2].timestamp = 2 /\ frames[3].timestamp = 4
  /\ getFrameAtTime(frames, 3) = frames[2]
  /\ frames[2].imageUrl > frames[1].imageUrl

\* C7: over insertions with non-decreasing timestamps and no clearFrames, for
\* every query time t the frame getFrameAtTime(t) returns never changes to an
\* earlier arrival; it changes to null only when no stored frame has a
\* timestamp <= t any more, and once it is null after a frame with timestamp
\* <= t had arrived, it stays null.
Arrival(f) == f.imageUrl
C7_LookupNeverMovesBack ==
  [][ (NonDecreasing(arrivals') /\ Len(arrivals') = Len(arrivals) + 1) =>
        \A t \in Queries :
          LET before == getFrameAtTime(frames, t)
              after == getFrameAtTime(frames', t)
              arrived == \E i \in DOMAIN arrivals : arrivals[i].timestamp <= t
          IN /\ (before # NullFrame /\ after # NullFrame) =>
                  Arrival(after) >= Arrival(before)
             /\ (before # NullFrame /\ after = NullFrame) =>
                  \A i \in DOMAIN frames' : frames'[i].timestamp > t
             /\ (before = NullFrame /\ arrived) => after = NullFrame ]_vars

\* The frame returned for t = 1 was evicted and the lookup is null from then on.
C7_Witness ==
  /\ maxFrames = 2
  /\ Timestamps(arrivals) = <<1, 2, 3, 3>>
  /\ getFrameAtTime(frames, 1) = NullFrame
  /\ getFrameAtTime(frames, 2) = NullFrame
  /\ getFrameAtTime(frames, 3) = frames[2]

(***************************************************************************)
(* extractFrame on its own: called on any buffer, and called again on the  *)
(* buffer the drain loop keeps (the remainder after a frame, else the      *)
(* buffer itself).                                                         *)
(***************************************************************************)
RECURSIVE SeqsOfLen(_)
SeqsOfLen(n) ==
  IF n = 0 THEN {<<>>} ELSE {<<b>> \o r : b \in Bytes, r \in SeqsOfLen(n - 1)}
SeqsUpTo(n) == UNION {SeqsOfLen(k) : k \in 0..n}

InitExtract ==
  /\ url = ""
  /\ isCapturing = FALSE
  /\ frames = <<>>
  /\ error = Null
  /\ maxFrames = 0
  /\ abortController = NoController
  /\ timeSupplier = Null
  /\ onStateChange = Null
  /\ sessions = <<>>
  /\ nextUrl = 1
  /\ revoked = <<>>
  /\ observed = NeverNotified
  /\ notifications = 0
  /\ disposed = FALSE
  /\ video = NoVideo
  /\ arrivals = <<>>
  /\ timeMonotonic = TRUE
  /\ \E b \in SeqsUpTo(MaxBufLen) :
       probe = [first |-> b, input |-> b, buffer |-> b, result |-> NullFrameData,
                calls |-> 0]

\* One pass of the drain loop's body, without the insertion.
ExtractCall ==
  /\ probe.calls < MaxCalls
  /\ LET frameData == extractFrame(probe.buffer)
     IN probe' = [probe EXCEPT
                    !.input = probe.buffer,
                    !.result = frameData,
                    !.buffer = IF frameData = NullFrameData THEN @
                               ELSE frameData.remainingBuffer,
                    !.calls = @ + 1]
  /\ notifications' = 0
  /\ disposed' = disposed
  /\ video' = video
  /\ UNCHANGED <<url, isCapturing, frames, error, maxFrames, abortController, timeSupplier,
                 onStateChange, sessions, nextUrl, revoked, observed, arrivals,
                 timeMonotonic>>

NextExtract == ExtractCall

SpecExtract == InitExtract /\ [][NextExtract]_vars

\* Where a marker lies in a buffer (byte positions counted from 0, as in the
\* code): at the position of every item that is followed by the marker's
\* second byte and is its first.
MarkerAt(buffer, marker, k) ==
  /\ k >= 1 /\ k + 1 <= Len(buffer)
  /\ buffer[k] = marker[1] /\ buffer[k + 1] = marker[2]
PositionOf(buffer, k) == length(SubSeq(buffer, 1, k - 1))
StartsIn(buffer) ==
  {PositionOf(buffer, k) : k \in {x \in DOMAIN buffer : MarkerAt(buffer, jpegStartMarker, x)}}
EndsIn(buffer) ==
  {PositionOf(buffer, k) : k \in {x \in DOMAIN buffer : MarkerAt(buffer, jpegEndMarker, x)}}
HasCompleteFrame(buffer) ==
  \E i \in StartsIn(buffer), j \in EndsIn(buffer) : j > i

\* C8: on a buffer with a start marker and an end marker at a later position,
\* extractFrame returns the bytes from the first start marker through the
\* first end marker after it, [start, end+2), and as remainder the bytes from
\* end+2 on; the frame begins with FF D8 and ends with FF D9.
C8_ExtractReturnsFirstFrame ==
  (probe.calls >= 1 /\ HasCompleteFrame(probe.input)) =>
    LET b == probe.input
        start == Min(StartsIn(b))
        end == Min({j \in EndsIn(b) : j > start})
        jpeg == probe.result.jpegData
    IN /\ probe.result # NullFrameData
       /\ jpeg = [k \in 1..(end + 2 - start) |-> b[start + k]]
       /\ probe.result.remainingBuffer = [k \in 1..(Len(b) - (end + 2)) |-> b[end + 2 + k]]
       /\ SubSeq(jpeg, 1, 2) = jpegStartMarker
       /\ SubSeq(jpeg, Len(jpeg) - 1, Len(jpeg)) = jpegEndMarker
       /\ probe.buffer = probe.result.remainingBuffer

\* Bytes before the start marker were dropped and bytes after the end marker
\* were kept as remainder.
C8_Witness ==
  /\ probe.calls = 1
  /\ probe.input = <<0, 255, 216, 255, 217, 216>>
  /\ probe.result = [jpegData |-> <<255, 216, 255, 217>>, remainingBuffer |-> <<216>>]

\* C9: on a buffer with no start marker, or with no end marker after a start
\* marker, every call of extractFrame returns null and the buffer stays as
\* it was.
C9_NoFrameLeavesBuffer ==
  ~HasCompleteFrame(probe.first) =>
    /\ probe.result = NullFrameData
    /\ probe.buffer = probe.first
    /\ probe.input = probe.first

\* Called twice on a buffer whose only end marker precedes its start marker.
C9_Witness ==
  /\ probe.calls = 2
  /\ probe.first = <<255, 217, 255, 216, 0>>
  /\ probe.result = NullFrameData
  /\ probe.buffer = probe.first

(***************************************************************************)
(* One capture of a multipart stream built from JPEG payloads, delivered   *)
(* in chunks of any lengths up to MaxChunk, into an instance constructed   *)
(* with the default capacity.                                              *)
(***************************************************************************)
DEFAULT_MAX_FRAMES == 1000

\* The byte sequences of up to maxLen bytes that start with the SOI marker and
\* end with the EOI marker.
JpegPayloads(maxLen) ==
  {jpegStartMarker \o mid \o jpegEndMarker : mid \in SeqsUpTo(maxLen - 4)}

RECURSIVE PayloadLists(_, _)
PayloadLists(n, maxLen) ==
  IF n = 0 THEN {<<>>}
  ELSE {<<p>> \o rest : p \in JpegPayloads(maxLen), rest \in PayloadLists(n - 1, maxLen)}

\* The bodies of 1..maxN parts, each boundary text and a payload.
RoundTripStreams(maxN, maxLen) ==
  {[payloads |-> ps, body |-> Build(ps)] :
     ps \in UNION {PayloadLists(n, maxLen) : n \in 1..maxN}}

InitStream ==
  /\ url = ""
  /\ isCapturing = FALSE
  /\ frames = <<>>
  /\ error = Null
  /\ maxFrames = DEFAULT_MAX_FRAMES
  /\ abortController = NoController
  /\ timeSupplier = Null
  /\ onStateChange = Null
  /\ sessions = <<>>
  /\ nextUrl = 1
  /\ revoked = <<>>
  /\ observed = NeverNotified
  /\ notifications = 0
  /\ disposed = FALSE
  /\ video = NoVideo
  /\ arrivals = <<>>
  /\ timeMonotonic = TRUE
  /\ probe = NoProbe

NextStream ==
  \/ \E u \in Urls : sessions = <<>> /\ StartCapture(u)
  \/ \E i \in DOMAIN sessions : FetchResolved(i, RoundTripStreams(MaxPayloads, MaxPayloadLen))
  \/ \E i \in DOMAIN sessions, n \in 1..MaxChunk : ReadChunk(i, n, 1)
  \/ \E i \in DOMAIN sessions : AfterAddFrame(i, 1)
  \/ \E i \in DOMAIN sessions : ReadEnded(i)

SpecStream == InitStream /\ [][NextStream]_vars

ImageData(fs) == [i \in DOMAIN fs |-> fs[i].imageData]

\* C10: once the whole body built from N JPEG payloads has been read and
\* drained, the store holds exactly N frames whose data are the payloads, in
\* order.
C10_RoundTrip ==
  \A i \in DOMAIN sessions :
    (sessions[i].pc = "read" /\ sessions[i].body = <<>> /\ sessions[i].payloads # <<>>)
      => ImageData(frames) = sessions[i].payloads

(***************************************************************************)
(* One capture of a stream that outgrows the accumulator: a part longer    *)
(* than the 1 MiB ceiling, or a part that never ends, delivered in chunks  *)
(* of half the ceiling and more.                                           *)
(***************************************************************************)
\* n payload bytes without a marker.
Fill(n) == <<-n>>

\* Bodies around a run of filler bytes as long as the ceiling (their
\* payloads are not recorded): a part that never ends; two small parts
\* followed by a part that never ends; and an oversized part whose start
\* marker lies across the place where the truncation cuts, followed by a
\* small part.
OvergrownStreams(ceiling, keep) ==
  { [payloads |-> <<>>,
     body |-> jpegStartMarker \o Fill(ceiling)],
    [payloads |-> <<>>,
     body |-> Build(<<SmallJpeg, SmallJpeg>>) \o jpegStartMarker \o Fill(ceiling)],
    [payloads |-> <<>>,
     body |-> Fill(keep) \o jpegStartMarker \o Fill(keep - 1) \o jpegEndMarker
              \o Build(<<SmallJpeg>>)] }

\* The bodies a server sends: the overgrown ones, and multipart bodies far
\* below the ceiling.
TruncStreams(ceiling, keep) ==
  OvergrownStreams(ceiling, keep) \cup RoundTripStreams(MaxPayloads, MaxPayloadLen)

\* A read delivers as many bytes as the truncation keeps, one byte more than
\* the ceiling, or twice the ceiling, or the rest of the body.
OvergrownChunks == {TruncateKeep, TruncateAbove + 1, 2 * TruncateAbove}

InitTrunc ==
  /\ url = ""
  /\ isCapturing = FALSE
  /\ frames = <<>>
  /\ error = Null
  /\ maxFrames = DEFAULT_MAX_FRAMES
  /\ abortController = NoController
  /\ timeSupplier = Null
  /\ onStateChange = Null
  /\ sessions = <<>>
  /\ nextUrl = 1
  /\ revoked = <<>>
  /\ observed = NeverNotified
  /\ notifications = 0
  /\ disposed = FALSE
  /\ video = NoVideo
  /\ arrivals = <<>>
  /\ timeMonotonic = TRUE
  /\ probe = NoProbe

NextTrunc ==
  \/ SetOnStateChange
  \/ \E u \in Urls : sessions = <<>> /\ StartCapture(u)
  \/ \E i \in DOMAIN sessions : FetchResolved(i, TruncStreams(TruncateAbove, TruncateKeep))
  \/ \E i \in DOMAIN sessions, n \in OvergrownChunks : ReadChunk(i, n, 1)
  \/ \E i \in DOMAIN sessions : AfterAddFrame(i, 1)
  \/ \E i \in DOMAIN sessions : ReadEnded(i)

SpecTrunc == InitTrunc /\ [][NextTrunc]_vars

\* C11: whenever a session is about to read, its accumulator holds no start
\* marker followed by an end marker.
C11_DrainedBeforeRead ==
  \A i \in DOMAIN sessions :
    sessions[i].pc = "read" => ~HasCompleteFrame(Flatten(sessions[i].bufferChunks))
\* Two frames of one chunk were drained and the never-ending part behind
\* them was truncated.
C11_Witness ==
  \E i \in DOMAIN sessions :
    /\ sessions[i].pc = "read"
    /\ sessions[i].body = <<>>
    /\ Len(frames) = 2
    /\ sessions[i].bufferLength = TruncateKeep

\* How many bytes a step of session i read from its body.
Consumed(i) == length(sessions[i].body) - length(sessions'[i].body)

\* Session i takes a step of its read loop (not one in which it is aborted).
LoopStep(i) ==
  /\ sessions[i].pc \in {"read", "added"}
  /\ sessions'[i] # sessions[i]
  /\ sessions'[i].signalAborted = sessions[i].signalAborted
  /\ sessions[i].pc = "read" => length(sessions'[i].body) < length(sessions[i].body)

\* The buffer the drain loop of a step that read n bytes works on: the
\* accumulator and the chunk just read, or the remainder behind the frame
\* just inserted.
DrainedBuffer(i, n) ==
  IF sessions[i].pc = "read"
  THEN concat(Flatten(sessions[i].bufferChunks), slice(sessions[i].body, 0, n))
  ELSE sessions[i].frameData.remainingBuffer

\* The step ends an iteration of the read loop: the next read is issued.
EndsIteration(i) == LoopStep(i) /\ sessions'[i].pc = "read"

\* The bytes of b are the last bytes of d.
EndsWith(d, b) ==
  LET n == Len(b)
      m == Len(d)
  IN /\ n >= 1 /\ n <= m
     /\ \A k \in 2..n : b[k] = d[m - n + k]
     /\ \/ b[1] = d[m - n + 1]
        \/ b[1] < 0 /\ d[m - n + 1] < b[1]

\* C12: at the end of every iteration of the read loop the accumulator is at
\* most 1 MiB long: the drained buffer if that is at most 1 MiB long, else
\* exactly its last 512 KiB; and bufferLength is always the total length of
\* the buffered chunks.
C12_AccumulatorBounded ==
  [][ \A i \in DOMAIN sessions :
        /\ sessions'[i].bufferLength = length(Flatten(sessions'[i].bufferChunks))
        /\ EndsIteration(i) =>
             \A n \in {Consumed(i)} :
               LET d == DrainedBuffer(i, n)
                   b == Flatten(sessions'[i].bufferChunks)
               IN /\ length(b) <= 1048576
                  /\ length(d) > 1048576 => (length(b) = 524288 /\ EndsWith(d, b))
                  /\ length(d) <= 1048576 => b = d ]_vars

\* The truncation cut a start marker in two: the kept half begins with D8.
C12_Witness ==
  \E i \in DOMAIN sessions :
    /\ sessions[i].pc = "read"
    /\ sessions[i].bufferLength = 524288
    /\ sessions[i].bufferChunks = <<(<<216>> \o Fill(524288 - 1))>>

\* A step that read n bytes and whose drain loop is left with more than
\* 1 MiB and no frame.
Overgrown(i, n) ==
  /\ LoopStep(i)
  /\ length(DrainedBuffer(i, n)) > TruncateAbove
  /\ ~HasCompleteFrame(DrainedBuffer(i, n))

\* C13: a step that truncates the accumulator changes neither isCapturing,
\* error, url nor the stored frames, calls no observer, and leaves the session
\* at its next read.
C13_TruncationSilent ==
  [][ \A i \in DOMAIN sessions : \A n \in {Consumed(i)} :
        Overgrown(i, n) =>
          /\ isCapturing' = isCapturing
          /\ error' = error
          /\ url' = url
          /\ frames' = frames
          /\ observed' = observed
          /\ notifications' = 0
          /\ disposed' = disposed
          /\ video' = video
          /\ sessions'[i].pc = "read"
          /\ sessions'[i].bufferLength = TruncateKeep ]_vars

\* The part that never ends was truncated and the capture goes on.
C13_Witness ==
  \E i \in DOMAIN sessions :
    /\ sessions[i].pc = "read"
    /\ sessions[i].bufferLength = TruncateKeep
    /\ sessions[i].bufferChunks = <<Fill(TruncateKeep)>>
    /\ length(sessions[i].body) = 1
    /\ onStateChange # Null /\ observed = getState(url, TRUE, <<>>, Null)
    /\ isCapturing /\ error = Null /\ notifications = 0 /\ frames = <<>>
(***************************************************************************)
(* Failures, cancellation and restarts of a session (Spec).                *)
(***************************************************************************)
\* The headers in which the boundary pattern finds a token.
WithBoundary ==
  {"multipart/x-mixed-replace; boundary=--myboundary",
   "multipart/x-mixed-replace;boundary=\"myboundary\""}
BoundaryMessage == "Could not find MJPEG boundary in Content-Type header"

\* C14: a session enters the read loop only on a response whose Content-Type
\* names a boundary; on any other response startCapture ends with the
\* boundary message as error and isCapturing false, without having read a
\* byte of the body or inserted a frame.
C14_NoBoundaryIsFatal ==
  [][ \A i \in DOMAIN sessions :
        /\ sessions'[i].pc \in {"read", "added"} => sessions'[i].contentType \in WithBoundary
        /\ (sessions[i].pc = "fetch" /\ sessions'[i] # sessions[i] /\ error' = BoundaryMessage)
             => /\ ~isCapturing'
                /\ error' # ""
                /\ sessions'[i].pc = "done"
                /\ sessions'[i].bufferLength = 0
                /\ frames' = frames
                /\ nextUrl' = nextUrl ]_vars

C14_Witness ==
  /\ error = BoundaryMessage
  /\ ~isCapturing
  /\ Len(sessions) = 1 /\ sessions[1].pc = "done"
  /\ frames = <<>> /\ nextUrl = 1
  /\ observed = getState(url, FALSE, <<>>, BoundaryMessage)

\* C15: when a session ends with the HTTP status error, it was not reported as
\* capturing before: isCapturing was false and the observer had not been told
\* that it was capturing.
C15_NotCapturingWhileConnecting ==
  [][ \A i \in DOMAIN sessions :
        (/\ sessions[i].pc = "fetch"
         /\ sessions'[i].pc = "done"
         /\ error' = "HTTP error: 404 Not Found")
          => /\ ~isCapturing
             /\ (onStateChange # Null => ~observed.isCapturing) ]_vars

\* Session i records an error in this step.
Fails(i) ==
  /\ sessions'[i] # sessions[i]
  /\ error' # error
  /\ error' # Null

\* C16: a step in which a session records an error leaves a non-empty message
\* in error, isCapturing false and the session finished; a finished session
\* never takes another step, so nothing is fetched or read again until the
\* next startCapture.
C16_FailureIsFinal ==
  [][ \A i \in DOMAIN sessions :
        /\ Fails(i) => (error' # "" /\ ~isCapturing' /\ sessions'[i].pc = "done")
        /\ sessions[i].pc = "done" => sessions'[i].pc = "done" ]_vars

\* A read error after a frame had been stored.
C16_Witness ==
  /\ error = "network error"
  /\ ~isCapturing
  /\ frames # <<>>
  /\ \A i \in DOMAIN sessions : sessions[i].pc = "done"

\* C17: neither the step that aborts a session which is fetching, reading or
\* adding a frame (stopCapture, dispose, a replacing startCapture) nor a later
\* step of the aborted session sets error, and what the observer is told in
\* such a step carries the error as it was.  A session whose read has already
\* been rejected by the network is not cancelled by a later abort.
C17_CancellationSilent ==
  [][ \A i \in DOMAIN sessions :
        (/\ sessions[i].pc # "rejected"
         /\ \/ sessions'[i].signalAborted /\ ~sessions[i].signalAborted
            \/ sessions[i].signalAborted /\ sessions'[i] # sessions[i])
          => /\ error' = error \/ error' = Null
             /\ observed' = observed \/ observed'.error = error' ]_vars

\* A session aborted while reading and one aborted while fetching have both
\* returned, and no error was recorded or reported.
C17_Witness ==
  /\ Len(sessions) = 2
  /\ \A i \in DOMAIN sessions : sessions[i].pc = "done" /\ sessions[i].signalAborted
  /\ frames # <<>>
  /\ error = Null
  /\ onStateChange # Null /\ observed.error = Null /\ ~observed.isCapturing

\* C18: a step that records an error leaves the stored frames, their object
\* URLs and the results of every lookup as they were.
C18_ErrorKeepsFrames ==
  [][ (error' # error /\ error' # Null) =>
        /\ frames' = frames
        /\ revoked' = revoked
        /\ \A t \in 0..(DateNow(MaxTime) + 1) : getFrameAtTime(frames', t) = getFrameAtTime(frames, t)
        /\ \A index \in 0..MaxCap :
             getFrameAtIndex(frames', index) = getFrameAtIndex(frames, index) ]_vars

C18_Witness ==
  /\ error # Null
  /\ Len(frames) = 2
  /\ \A k \in DOMAIN frames : revoked[frames[k].imageUrl] = 0
  /\ getFrameAtTime(frames, MaxTime) = frames[2]
  /\ getFrameAtIndex(frames, 0) = frames[1]

\* C19: once a later startCapture has begun a new session, no earlier session
\* inserts a frame.
C19_OnlyNewSessionInserts ==
  [][ \A i \in DOMAIN sessions :
        (i < Len(sessions) /\ sessions'[i] # sessions[i]) => nextUrl' = nextUrl ]_vars

\* C20: after stopCapture, and after a session's stream has ended normally,
\* isCapturing is false and error is null.
C20_IdleAfterStopOrEnd ==
  [][ (\/ StopCapture
       \/ \E i \in DOMAIN sessions : ReadEnded(i) /\ ~sessions[i].signalAborted)
        => (~isCapturing' /\ error' = Null) ]_vars

(***************************************************************************)
(* clearFrames and dispose.                                                *)
(***************************************************************************)
\* C21: clearFrames empties the store and leaves every object URL handed out
\* so far revoked, and it changes neither url, isCapturing, error nor the
\* running session and its abortController.
C21_ClearReleasesAll ==
  [][ClearFrames =>
       /\ Len(frames') = 0
       /\ \A u \in 1..(nextUrl - 1) : revoked'[u] >= 1
       /\ UNCHANGED <<url, isCapturing, error, abortController, sessions>>]_vars

\* The read loop of the only session stored a frame, clearFrames released
\* it, and the same loop then stored its next frame.
C21_Witness ==
  /\ Len(sessions) = 1
  /\ isCapturing
  /\ maxFrames = 2
  /\ nextUrl = 3
  /\ revoked = <<1, 0>>
  /\ Len(frames) = 1
  /\ frames[1].imageUrl = 2

\* C22: once dispose has been called the frame store stays empty: no later
\* step of a suspended read loop, chunk delivery or startCapture inserts a
\* frame.
C22_EmptyAfterDispose == disposed => frames = <<>>

\* C23: dispose leaves no fetch or read in flight that is not aborted, every
\* object URL handed out so far revoked and the observer detached; from then
\* on no step invokes the callback, and once a capture was started no step
\* attaches one.
C23_DisposeDetaches ==
  [][/\ Dispose =>
          /\ onStateChange' = Null
          /\ abortController' = NoController
          /\ \A i \in DOMAIN sessions :
               sessions[i].pc \in {"fetch", "read"} => sessions'[i].signalAborted
          /\ \A u \in 1..(nextUrl - 1) : revoked'[u] >= 1
     /\ (disposed /\ onStateChange = Null) => (notifications' = 0 /\ observed' = observed)
     /\ (disposed /\ sessions # <<>> /\ onStateChange = Null) => onStateChange' = Null]_vars

\* An attached observer was told of the disposal, which released a stored
\* frame and aborted the read, and the read loop has unwound since.
C23_Witness ==
  /\ disposed
  /\ onStateChange = Null
  /\ observed = getState(url, FALSE, <<>>, Null)
  /\ revoked = <<1>>
  /\ Len(sessions) = 1
  /\ sessions[1].pc = "done"
  /\ sessions[1].signalAborted

(***************************************************************************)
(* Notifications.                                                          *)
(***************************************************************************)
\* C24: while a callback is attached, every step that changes url,
\* isCapturing, error or the stored frames calls it, and the state it was
\* last given is the state the step leaves.
C24_EveryChangeNotified ==
  [][(onStateChange # Null /\ <<url, isCapturing, error, frames>>' #
                               <<url, isCapturing, error, frames>>) =>
       /\ notifications' >= 1
       /\ observed' = getState(url', isCapturing', frames', error')]_vars

\* The observer was told of a frame that took the place of an evicted one.
C24_Witness ==
  /\ onStateChange # Null
  /\ maxFrames = 1
  /\ nextUrl = 3
  /\ Len(frames) = 1
  /\ frames[1].imageUrl = 2
  /\ notifications = 1
  /\ observed = getState(url, TRUE, frames, Null)

(***************************************************************************)
(* Timestamps.                                                             *)
(***************************************************************************)
\* C25: every stored frame carries a timestamp the injected time source
\* returned; none carries a reading of the wall clock.
C25_NeverWallClock == \A k \in DOMAIN frames : frames[k].timestamp \in Times

(***************************************************************************)
(* Lookups between the steps of the read loop.                             *)
(***************************************************************************)
\* C26: between any two steps, and in the state the callback is given, the
\* store holds at most maxFrames frames, none of them with a revoked object
\* URL, and every lookup by time or index returns null or a stored frame.
C26_StoreWhole ==
  /\ Len(frames) <= maxFrames
  /\ observed.frameCount <= maxFrames
  /\ \A k \in DOMAIN frames : revoked[frames[k].imageUrl] = 0
  /\ \A t \in 0..(DateNow(MaxTime) + 1) :
       getFrameAtTime(frames, t) \in {NullFrame} \cup {frames[k] : k \in DOMAIN frames}
  /\ \A index \in (-1)..Len(frames) :
       getFrameAtIndex(frames, index) \in {NullFrame} \cup {frames[k] : k \in DOMAIN frames}

\* An insertion that evicted a frame has notified the observer and its
\* `await this.addFrame` is still pending.
C26_Witness ==
  /\ \E i \in DOMAIN sessions : sessions[i].pc = "added"
  /\ maxFrames = 1
  /\ revoked = <<1, 0>>
  /\ onStateChange # Null
  /\ observed.frameCount = 1
  /\ getFrameAtIndex(frames, 0).imageUrl = 2

(***************************************************************************)
(* Cancellation and stalled connections.                                   *)
(***************************************************************************)
\* C27: stopCapture can run in every state, and a session whose signal was
\* aborted while it awaits the fetch or the next chunk eventually returns,
\* whatever the server does.
C27_AbortUnwinds ==
  /\ [](ENABLED StopCapture)
  /\ \A i \in 1..MaxSessions :
       (i \in DOMAIN sessions /\ sessions[i].signalAborted
          /\ sessions[i].pc \in {"fetch", "read"})
         ~> (i \in DOMAIN sessions /\ sessions[i].pc = "done")

\* stopCapture has returned while the only session, one frame into a body
\* the server has not finished, awaits its next chunk.
C27_Witness ==
  /\ Len(sessions) = 1
  /\ sessions[1].pc = "read"
  /\ sessions[1].signalAborted
  /\ sessions[1].payloads = <<SmallJpeg, SmallJpeg>>
  /\ abortController = NoController
  /\ ~disposed
  /\ ~isCapturing
  /\ nextUrl = 2

\* C28: isCapturing goes from true to false only in a step that aborts the
\* controller (stopCapture, dispose), that ends a read whose stream is over
\* or whose signal was aborted (by a stop or a replacing startCapture), or
\* that records the failure of a fetch or read; no step ends a session that
\* awaits a chunk on an open connection.
C28_NoTimeout ==
  [][(isCapturing /\ ~isCapturing') =>
       \/ /\ sessions' = abort(sessions, abortController)
          /\ abortController' = NoController
       \/ \E i \in DOMAIN sessions :
            /\ sessions[i].pc = "read" /\ sessions'[i].pc = "done"
            /\ sessions[i].signalAborted \/ sessions[i].body = <<>>
            /\ error' = error
       \/ \E i \in DOMAIN sessions :
            /\ sessions[i].pc \in {"fetch", "read"} /\ sessions'[i].pc = "done"
            /\ ~sessions[i].signalAborted
            /\ error' # Null
       \/ \E i \in DOMAIN sessions :
            /\ sessions[i].pc = "read" /\ sessions'[i].pc = "rejected"
            /\ ~sessions[i].signalAborted
       \/ \E i \in DOMAIN sessions :
            /\ sessions[i].pc = "rejected" /\ sessions'[i].pc = "done"
            /\ error' # Null]_vars

\* A session that has received part of a body awaits the next chunk on an
\* open connection and is reported capturing.
C28_Witness ==
  /\ isCapturing
  /\ Len(sessions) = 1
  /\ sessions[1].pc = "read"
  /\ ~sessions[1].signalAborted
  /\ sessions[1].body # <<>>
  /\ sessions[1].bufferLength = 3
  /\ frames = <<>>

(***************************************************************************)
(* Lookup by index.                                                        *)
(***************************************************************************)
\* C29: with n frames stored, getFrameAtIndex(i) for 0 <= i < n is the frame
\* that was inserted as the (i+1)-th of the n most recent insertions, and it
\* is null for every other integer i.
C29_IndexIsAge ==
  LET n == Len(frames)
      first == Len(arrivals) - n
  IN /\ first >= 0
     /\ \A index \in (-2)..(MaxStoreCap + 2) :
          getFrameAtIndex(frames, index) =
            IF 0 <= index /\ index < n THEN arrivals[first + index + 1] ELSE NullFrame

\* After an eviction index 0 is the second frame inserted, and the indices
\* just outside the store give null.
C29_Witness ==
  /\ Len(arrivals) = 3
  /\ Len(frames) = 2
  /\ getFrameAtIndex(frames, 0) = arrivals[2]
  /\ getFrameAtIndex(frames, 1) = arrivals[3]
  /\ getFrameAtIndex(frames, 2) = NullFrame
  /\ getFrameAtIndex(frames, -1) = NullFrame

(***************************************************************************)
(* VideoController: the calls that hand a URL to startCapture.  A string   *)
(* whose text matters is the sequence of its pieces: an optional "mjpg:"   *)
(* prefix, a scheme, and the rest.                                         *)
(***************************************************************************)
startsWith(s, piece) == s # <<>> /\ s[1] = piece

toLowerCase(s) ==
  [k \in DOMAIN s |-> CASE s[k] = "MJPG:" -> "mjpg:"
                        [] s[k] = "HTTP://" -> "http://"
                        [] OTHER -> s[k]]

\* new URL(url).protocol, or "invalid" where the constructor throws: the
\* parser lower-cases the scheme and wants something after "//".
protocolOf(text) ==
  CASE startsWith(toLowerCase(text), "mjpg:") /\ Len(text) >= 2 -> "mjpg:"
    [] Len(text) >= 2 /\ toLowerCase(text)[1] \in {"http://", "https://", "ftp://"} ->
         toLowerCase(text)[1]
    [] OTHER -> "invalid"

extractStreamUrl(value) ==
  IF value = NoText THEN NoText
  ELSE IF startsWith(toLowerCase(value), "mjpg:") THEN Tail(value)
  ELSE value

isValidStreamUrl(value) ==
  IF value = NoText THEN FALSE
  ELSE LET streamUrl == extractStreamUrl(value)
       IN IF ~startsWith(streamUrl, "http://") /\ ~startsWith(streamUrl, "https://")
          THEN FALSE
          ELSE protocolOf(streamUrl) # "invalid"

\* The validation of the URL dialog (streamUrl.ts).
isValidUrl(text) ==
  IF text = NoText THEN FALSE ELSE protocolOf(text) \in {"http://", "https://"}

\* The values a string field of the log holds ("" where it has none).
FieldValues ==
  { NoText,
    <<"http://", "cam/stream">>,
    <<"https://", "cam/stream">>,
    <<"mjpg:", "http://", "cam/stream">>,
    <<"MJPG:", "https://", "cam/stream">>,
    <<"ftp://", "cam/stream">>,
    <<"http://">>,
    <<"cam/stream">> }

\* What the user types into the dialog, trimmed, and what its confirm button
\* posts; the main process relays the posted value as data.streamUrl.
DialogTexts == FieldValues \cup {<<"HTTP://", "cam/stream">>}
ConfirmedUrls == {text \in DialogTexts : isValidUrl(text)}

\* The states saveState produces in stream mode.
SavedStates ==
  {[type |-> "manual", url |-> u, fieldKey |-> Null] : u \in ConfirmedUrls}
    \cup {[type |-> "field", url |-> u, fieldKey |-> "key"] :
            u \in {v \in FieldValues : isValidStreamUrl(v)}}

InitController ==
  /\ url = NoText
  /\ isCapturing = FALSE
  /\ frames = <<>>
  /\ error = Null
  /\ maxFrames = DEFAULT_MAX_FRAMES
  /\ abortController = NoController
  /\ timeSupplier = Null
  /\ onStateChange = Null
  /\ sessions = <<>>
  /\ nextUrl = 1
  /\ revoked = <<>>
  /\ observed = NeverNotified
  /\ notifications = 0
  /\ disposed = FALSE
  /\ video = NoVideo
  /\ arrivals = <<>>
  /\ timeMonotonic = TRUE
  /\ probe = NoProbe

\* startStreamCapture that creates the new instance without disposing the
\* one it replaces.
StartStreamCaptureLeaking(v, u) ==
  /\ video' = [v EXCEPT !.isStreamMode = TRUE, !.streamUrl = u, !.streamCapture = TRUE,
                        !.undisposed = @ + 1]
  /\ revoked' = revoked
  /\ frames' = <<>>
  /\ arrivals' = <<>>
  /\ maxFrames' = DEFAULT_MAX_FRAMES
  /\ timeSupplier' = "set"
  /\ onStateChange' = "set"
  /\ sessions' = <<NewSession>>
  /\ abortController' = 1
  /\ url' = u
  /\ error' = Null
  /\ isCapturing' = TRUE
  /\ observed' = getState(u, TRUE, <<>>, Null)
  /\ notifications' = 2
  /\ disposed' = FALSE
  /\ UNCHANGED <<nextUrl, timeMonotonic, probe>>

\* startStreamCapture: the old instance is disposed and dropped with its
\* sessions; a new one is created, given its two callbacks and started.  `v`
\* is the controller after the caller's own assignments; `undisposed` counts
\* the instances the controller has created and not disposed.
StartStreamCapture(v, u) ==
  /\ video' = [v EXCEPT !.isStreamMode = TRUE, !.streamUrl = u, !.streamCapture = TRUE,
                        !.undisposed = (IF v.streamCapture THEN @ - 1 ELSE @) + 1]
  /\ revoked' = revokeAll(revoked, frames)
  /\ frames' = <<>>
  /\ arrivals' = <<>>
  /\ maxFrames' = DEFAULT_MAX_FRAMES
  /\ timeSupplier' = "set"
  /\ onStateChange' = "set"
  /\ sessions' = <<NewSession>>
  /\ abortController' = 1
  /\ url' = u
  /\ error' = Null
  /\ isCapturing' = TRUE
  /\ observed' = getState(u, TRUE, <<>>, Null)
  /\ notifications' = 2
  /\ disposed' = FALSE
  /\ UNCHANGED <<nextUrl, timeMonotonic, probe>>

\* handleFieldDrop; `value` is the value of the field at the render time.
HandleFieldDrop(fieldKey, value) ==
  IF value = NoText \/ ~isValidStreamUrl(value)
  THEN UNCHANGED vars
  ELSE StartStreamCapture([video EXCEPT !.streamFieldKey = fieldKey], value)

\* processVideoData with a streamUrl from the main process (null: cancelled).
ProcessVideoData(streamUrl) ==
  IF streamUrl # NoText
  THEN StartStreamCapture([video EXCEPT !.streamFieldKey = Null], streamUrl)
  ELSE UNCHANGED vars

RestoreState(state) ==
  IF state.type = "field" /\ state.fieldKey # Null
  THEN /\ video' = [video EXCEPT !.streamFieldKey = state.fieldKey]
       /\ UNCHANGED <<url, isCapturing, frames, error, maxFrames, abortController,
                      timeSupplier, onStateChange, sessions, nextUrl, revoked, observed,
                      notifications, arrivals, timeMonotonic, disposed, probe>>
  ELSE IF state.url # NoText
       THEN StartStreamCapture([video EXCEPT !.streamFieldKey = Null], state.url)
       ELSE UNCHANGED vars

\* refresh; `value` is the value of the connected field at the render time.
Refresh(value) ==
  /\ video.isStreamMode /\ video.streamFieldKey # Null
  /\ IF value # NoText /\ value # video.lastFieldValue /\ isValidStreamUrl(value)
     THEN IF value # video.streamUrl
          THEN StartStreamCapture([video EXCEPT !.lastFieldValue = value], value)
          ELSE /\ video' = [video EXCEPT !.lastFieldValue = value]
               /\ UNCHANGED <<url, isCapturing, frames, error, maxFrames, abortController,
                              timeSupplier, onStateChange, sessions, nextUrl, revoked,
                              observed, notifications, arrivals, timeMonotonic, disposed,
                              probe>>
     ELSE UNCHANGED vars

\* exitStreamMode (a Local, YouTube or TBA source is selected, or file-based
\* video data arrives): the instance, if there is one, is disposed and
\* dropped, and the stream fields are reset.
ExitStreamMode ==
  IF video.streamCapture
  THEN /\ video' = [NoVideo EXCEPT !.undisposed = video.undisposed - 1]
       /\ sessions' = abort(sessions, abortController)
       /\ abortController' = NoController
       /\ isCapturing' = FALSE
       /\ revoked' = revokeAll(revoked, frames)
       /\ frames' = <<>>
       /\ arrivals' = <<>>
       /\ observed' = notifyStateChange(url, FALSE, <<>>, error)
       /\ notifications' = callbacks(2)
       /\ disposed' = TRUE
       /\ onStateChange' = Null
       /\ timeSupplier' = Null
       /\ UNCHANGED <<url, error, maxFrames, nextUrl, timeMonotonic, probe>>
  ELSE /\ video' = [NoVideo EXCEPT !.undisposed = video.undisposed]
       /\ UNCHANGED <<url, isCapturing, frames, error, maxFrames, abortController,
                      timeSupplier, onStateChange, sessions, nextUrl, revoked, observed,
                      notifications, arrivals, timeMonotonic, disposed, probe>>

NextController ==
  \/ \E value \in FieldValues : HandleFieldDrop("key", value)
  \/ \E value \in FieldValues : Refresh(value)
  \/ \E state \in SavedStates : RestoreState(state)
  \/ \E streamUrl \in ConfirmedUrls \cup {NoText} : ProcessVideoData(streamUrl)
  \/ ExitStreamMode
  \/ \E i \in DOMAIN sessions : FetchAborted(i)
  \/ \E i \in DOMAIN sessions : FetchFailed(i)

SpecController == InitController /\ [][NextController]_vars

\* C30: every URL handed to startCapture begins with http:// or https://.
C30_OnlyHttpUrls ==
  sessions # <<>> => (startsWith(url, "http://") \/ startsWith(url, "https://"))

(***************************************************************************)
(* addFrame statement by statement: the push, each test of the eviction    *)
(* loop, the shift and the revocation are steps of their own.  The only    *)
(* session is the caller; its pc is its position in addFrame and oldFrame  *)
(* the local of the loop body.                                             *)
(***************************************************************************)
EvictCaps == (-1)..MaxCap

InitEvict ==
  /\ url = ""
  /\ isCapturing = FALSE
  /\ frames = <<>>
  /\ error = Null
  /\ maxFrames \in EvictCaps
  /\ abortController = NoController
  /\ timeSupplier = Null
  /\ onStateChange \in {Null, "set"}
  /\ sessions = <<[pc |-> "call", oldFrame |-> NullFrame]>>
  /\ nextUrl = 1
  /\ revoked = <<>>
  /\ observed = NeverNotified
  /\ notifications = 0
  /\ disposed = FALSE
  /\ video = NoVideo
  /\ arrivals = <<>>
  /\ timeMonotonic = TRUE
  /\ probe = NoProbe

\* Lines 395-408: the object URL is created and the frame pushed.
Push(jpegData, timestamp) ==
  /\ sessions[1].pc = "call"
  /\ nextUrl <= MaxInserts
  /\ frames' = Append(frames, StreamFrame(timestamp, jpegData, nextUrl))
  /\ revoked' = Append(revoked, 0)
  /\ nextUrl' = nextUrl + 1
  /\ arrivals' = Append(arrivals, StreamFrame(timestamp, jpegData, nextUrl))
  /\ sessions' = [sessions EXCEPT ![1].pc = "while"]
  /\ notifications' = 0
  /\ UNCHANGED <<url, isCapturing, error, maxFrames, abortController, timeSupplier,
                 onStateChange, observed, disposed, video, timeMonotonic, probe>>

\* Lines 411-413: the test succeeds and shift() removes the first frame; on
\* an empty array it returns undefined and the body does nothing.
Shift ==
  /\ sessions[1].pc = "while"
  /\ Len(frames) > maxFrames
  /\ IF frames = <<>>
     THEN UNCHANGED <<frames, sessions>>
     ELSE /\ frames' = Tail(frames)
          /\ sessions' = [sessions EXCEPT ![1].pc = "revoke", ![1].oldFrame = Head(frames)]
  /\ notifications' = 0
  /\ UNCHANGED <<url, isCapturing, error, maxFrames, abortController, timeSupplier,
                 onStateChange, nextUrl, revoked, observed, disposed, video, arrivals,
                 timeMonotonic, probe>>

\* Line 414: the object URL of the removed frame is revoked.
Revoke ==
  /\ sessions[1].pc = "revoke"
  /\ revoked' = revokeObjectURL(revoked, sessions[1].oldFrame.imageUrl)
  /\ sessions' = [sessions EXCEPT ![1].pc = "while", ![1].oldFrame = NullFrame]
  /\ notifications' = 0
  /\ UNCHANGED <<url, isCapturing, frames, error, maxFrames, abortController,
                 timeSupplier, onStateChange, nextUrl, observed, disposed, video, arrivals,
                 timeMonotonic, probe>>

\* Lines 411 and 418: the test fails, the observer is notified, addFrame returns.
Notify ==
  /\ sessions[1].pc = "while"
  /\ ~(Len(frames) > maxFrames)
  /\ observed' = notifyStateChange(url, isCapturing, frames, error)
  /\ notifications' = callbacks(1)
  /\ sessions' = [sessions EXCEPT ![1].pc = "call"]
  /\ UNCHANGED <<url, isCapturing, frames, error, maxFrames, abortController,
                 timeSupplier, onStateChange, nextUrl, revoked, disposed, video, arrivals,
                 timeMonotonic, probe>>

NextEvict ==
  \/ \E t \in Times : Push(SmallJpeg, t)
  \/ Shift
  \/ Revoke
  \/ Notify
  \/ (sessions[1].pc = "call" /\ ClearFrames)

SpecEvict == InitEvict /\ [][NextEvict]_vars

\* A synchronous function runs on to its return.
SpecEvictLive == SpecEvict /\ WF_vars(Shift) /\ WF_vars(Revoke) /\ WF_vars(Notify)

\* C31: every frame that was pushed and is no longer in the frames array has
\* had its object URL revoked.
C31_ReleasedBeforeRemoved ==
  \A k \in DOMAIN arrivals :
    (\A j \in DOMAIN frames : frames[j] # arrivals[k]) => revoked[arrivals[k].imageUrl] >= 1

\* C36: for every maxFrames, a call of addFrame that has reached its
\* eviction loop returns, and it returns with at most max(maxFrames, 0)
\* frames stored.
C36_AddFrameTerminates ==
  /\ (sessions[1].pc = "while") ~> (sessions[1].pc = "call")
  /\ [](sessions[1].pc = "call" =>
          Len(frames) <= (IF maxFrames > 0 THEN maxFrames ELSE 0))

(***************************************************************************)
(* Sessions that replace or stop one another.                              *)
(***************************************************************************)
\* C32: while the session started last is the one abortController names (it
\* was not stopped) and has not returned, isCapturing is true.
C32_LatestSessionCapturing ==
  (sessions # <<>> /\ abortController = Len(sessions)
     /\ sessions[Len(sessions)].pc # "done")
    => isCapturing

\* C33: a session that stopCapture has aborted (the one started last, on an
\* instance that was not disposed) takes no step that stores a frame.
C33_StoppedSessionSilent ==
  [][\A i \in DOMAIN sessions :
       (i = Len(sessions) /\ sessions[i].signalAborted /\ ~disposed
          /\ sessions'[i] # sessions[i])
         => (nextUrl' = nextUrl /\ frames' = frames)]_vars

\* C34: whenever error is set isCapturing is false, and error is never the
\* empty string.
C34_ErrorMeansIdle == (error # Null => ~isCapturing) /\ error # ""

\* A fetch was rejected with an error that carries no message.
C34_Witness ==
  /\ error = "Unknown error"
  /\ ~isCapturing
  /\ sessions # <<>>
  /\ sessions[Len(sessions)].pc = "done"

\* C35: stopCapture and startCapture leave the frames array and the
\* revocation count of every object URL as they were, so every lookup gives
\* the same frame after the call as before it.
C35_FramesSurviveRestart ==
  [][(StopCapture \/ \E u \in Urls : StartCapture(u)) =>
       /\ frames' = frames
       /\ revoked' = revoked
       /\ \A t \in 0..(DateNow(MaxTime) + 1) :
            getFrameAtTime(frames', t) = getFrameAtTime(frames, t)
       /\ \A index \in (-1)..Len(frames) :
            getFrameAtIndex(frames', index) = getFrameAtIndex(frames, index)]_vars

\* A second session has stored its first frame behind the frame the first
\* session had stored, and both can be looked up.
C35_Witness ==
  /\ Len(sessions) = 2
  /\ sessions[1].pc = "done"
  /\ sessions[2].pc = "added"
  /\ length(sessions[2].body) = 6
  /\ timeSupplier # Null
  /\ Len(frames) = 2
  /\ frames[1].timestamp = 1 /\ frames[1].imageUrl = 1
  /\ frames[2].timestamp = 2 /\ frames[2].imageUrl = 2
  /\ sessions[2].lastTime = 2
  /\ revoked = <<0, 0>>
  /\ getFrameAtTime(frames, 1) = frames[1]

(***************************************************************************)
(* The read loop against the same bytes in one chunk.                      *)
(***************************************************************************)
\* The frames the drain loop extracts from one buffer.
RECURSIVE ExtractAll(_)
ExtractAll(buffer) ==
  LET frameData == extractFrame(buffer)
  IN IF frameData = NullFrameData THEN <<>>
     ELSE <<frameData.jpegData>> \o ExtractAll(frameData.remainingBuffer)

\* The bytes of its body a session has been given so far.
Delivered(sn) ==
  slice(Build(sn.payloads), 0, length(Build(sn.payloads)) - length(sn.body))

\* C37: however the body was split into chunks, a session that awaits its
\* next chunk has inserted exactly the frames that the bytes delivered so far
\* yield as one chunk, in that order, and while it is draining it has
\* inserted the first of them.
C37_ChunkingIrrelevant ==
  \A i \in DOMAIN sessions :
    LET whole == ExtractAll(Delivered(sessions[i]))
        got == ImageData(arrivals)
    IN /\ sessions[i].pc = "read" => got = whole
       /\ sessions[i].pc = "added" =>
            (Len(got) <= Len(whole) /\ got = SubSeq(whole, 1, Len(got)))

\* A frame has been inserted and the last chunk ended inside the start
\* marker of the next part.
C37_Witness ==
  /\ Len(sessions) = 1
  /\ sessions[1].pc = "read"
  /\ Len(arrivals) = 1
  /\ sessions[1].bufferChunks = <<boundaryText \o <<255>>>>
  /\ sessions[1].body # <<>>
  /\ sessions[1].body[1] = 216

(***************************************************************************)
(* What the observer is shown of a failed read.                            *)
(***************************************************************************)
\* C38: the observer of a session whose read has failed is not shown a state
\* with isCapturing false and no error.
C38_FailureShownAtOnce ==
  \A i \in DOMAIN sessions :
    (sessions[i].pc = "rejected" /\ onStateChange # Null)
      => ~(~observed.isCapturing /\ observed.error = Null)

(***************************************************************************)
(* The controller and its capture instance.                                *)
(***************************************************************************)
\* C39: after every operation of the controller isStreamMode is true exactly
\* when it holds a capture instance; the only instance that is created and
\* not disposed is the one it holds, so there is never more than one; and
\* the instance it holds has not been disposed.
C39_OneLiveInstance ==
  /\ video.isStreamMode <=> video.streamCapture
  /\ video.undisposed <= 1
  /\ video.undisposed = (IF video.streamCapture THEN 1 ELSE 0)
  /\ video.streamCapture => ~disposed
  /\ ~video.streamCapture => (disposed \/ sessions = <<>>)

\* A stream that followed a field has been replaced by one started from the
\* dialog: the field value seen by refresh is still recorded, which the exit
\* from stream mode would have reset.
C39_Witness ==
  /\ video.streamCapture
  /\ video.streamFieldKey = Null
  /\ video.lastFieldValue # NoText
  /\ video.streamUrl # video.lastFieldValue

\* C40: whenever the controller holds the key of a field to follow, as after
\* restoreState with a saved configuration of type "field", refresh monitors
\* that field: its condition for reading the field holds.
C40_FieldMonitoringRestored ==
  video.streamFieldKey # Null => video.isStreamMode
====
